---- MODULE Spec2Model ----
(***************************************************************************)
(* Model of fusera's locality resolution (package gps) and of the SDL API  *)
(* payload validation / transfiguration (package sdl).                     *)
(*                                                                         *)
(* Go strings are byte sequences.  Where the code looks inside a string    *)
(* (filepath.Base, len) the string is a sequence of bytes, each byte       *)
(* written as a token: an ASCII byte is its own character, the two bytes   *)
(* of the UTF-8 encoding of U+00E9 are "xC3" and "xA9".  Where the code    *)
(* only compares a string with "" or copies it, the string is a TLA+       *)
(* string.                                                                 *)
(***************************************************************************)
EXTENDS Integers, Sequences, FiniteSets, TLC

VARIABLES
    \* ---- package gps ----
    pc,         \* position of the caller: "start" and "gcp" inside GenerateLocator,
                \* "done" after it, "region" after Region() on its locator
    probes,     \* the probes GenerateLocator has issued, in order
    awsResp,    \* response the AWS probe of GenerateLocator received
    tokenResp,  \* response the GCP token probe of GenerateLocator received
    msg,        \* local msg of GenerateLocator: the retained AWS error
    locator,    \* returned Locator: "nil", "aws" or "gcp"
    genErr,     \* returned error of GenerateLocator
    regionResp, \* response received by the last Region() call
    regionRes,  \* (string, error) returned by the last Region() call
    \* ---- package sdl ----
    recv,       \* kind of record a payload run is about
    done,       \* the operations already applied to that record
    lastOp,     \* batch validation: "none", "validate" or "reset"
    loc,        \* receiver of the last Location.Validate
    locErr,     \* its result
    file,       \* receiver of the last File.Validate / File.Transfigure
    fileErr,    \* result of File.Validate
    locsValidated, \* number of Location.Validate calls File.Validate made
    newfile,    \* result of File.Transfigure
    wrap,       \* receiver of the last VersionWrap.Validate
    wrapErr,    \* its result
    isDup,      \* the duplicate-tracking map: the keys mapped to true
    acc,        \* receiver of the last Accession.Validate / Transfigure
    accErr,     \* result of Accession.Validate
    inspected,  \* number of File.Validate calls the last Accession.Validate made
    domAcc,     \* result of Accession.Transfigure
    dupBefore,  \* history: acc.ID was in isDup when the last Validate started
    repeat,     \* history: "no", "same" (same id as the previous Validate call,
                \* same map) or "reset" (same id, map emptied in between)
    prevPass    \* history: the previous Validate call's record passed checks 1-3

gpsVars == <<pc, probes, awsResp, tokenResp, msg, locator, genErr, regionResp, regionRes>>
fileVars == <<loc, locErr, file, fileErr, locsValidated, newfile>>
accVars == <<wrap, wrapErr, isDup, acc, accErr, inspected, domAcc, dupBefore, repeat, prevPass>>
sdlVars == <<recv, done, lastOp, fileVars, accVars>>
vars == <<gpsVars, sdlVars>>

(***************************************************************************)
(* Bounds                                                                  *)
(***************************************************************************)
MaxZoneLen == 3
MaxLocs == 2
MaxFiles == 2

(***************************************************************************)
(* Errors.  nil is NoErr; every other error is a record naming the message *)
(* format (kind) and the number formatted into it (code).                  *)
(***************************************************************************)
Err(kind, code) == [kind |-> kind, code |-> code]
NoErr == Err("nil", 0)

StatusOK == 200

\* errors.Wrap(err, msg): a non-nil error reading "msg: err".
Wrap(err, m) == [msg |-> m, cause |-> err]

(***************************************************************************)
(* package gps                                                             *)
(***************************************************************************)
Statuses == {200, 404, 500}
AwsRegions == {"", "us-east-1"}

\* What client.Get on the instance-identity document can produce.
AwsResps == [terr : BOOLEAN, status : Statuses, decodes : BOOLEAN, region : AwsRegions]
NoAwsResp == [terr |-> FALSE, status |-> 0, decodes |-> FALSE, region |-> ""]

\* What client.Do on the identity-token endpoint can produce.
TokenResps == [terr : BOOLEAN, status : Statuses, readok : BOOLEAN]
NoTokenResp == [terr |-> FALSE, status |-> 0, readok |-> FALSE]

Ret(val, err) == [val |-> val, err |-> err]

\* Mutant: the check for an empty region is missing.
resolveAwsRegionNoEmptyCheck(resp) ==
    IF resp.terr THEN Ret("", Err("GetAws", 0))
    ELSE IF resp.status # StatusOK THEN Ret("", Err("RegionStatus", resp.status))
    ELSE IF ~resp.decodes THEN Ret("", Err("DecodeAmazon", 0))
    ELSE Ret(resp.region, NoErr)

resolveAwsRegion(resp) ==
    IF resp.terr THEN Ret("", Err("GetAws", 0))
    ELSE IF resp.status # StatusOK THEN Ret("", Err("RegionStatus", resp.status))
    ELSE IF ~resp.decodes THEN Ret("", Err("DecodeAmazon", 0))
    ELSE IF resp.region = "" THEN Ret("", Err("EmptyAmazon", 0))
    ELSE Ret(resp.region, NoErr)

retrieveGCPInstanceToken(resp) ==
    IF resp.terr THEN Ret("", Err("GetToken", 0))
    ELSE IF resp.status # StatusOK THEN Ret("", Err("TokenStatus", resp.status))
    ELSE IF ~resp.readok THEN Ret("", Err("DecodeGoogle", 0))
    ELSE Ret("token", NoErr)

\* ---- strings as byte sequences -----------------------------------------
\* Runes a decoded JSON string is made of; "U+00E9" is e with acute accent.
Runes == {"/", "a", "z", "U+00E9"}
Utf8(r) == IF r = "U+00E9" THEN <<"xC3", "xA9">> ELSE <<r>>

RECURSIVE Bytes(_)
Bytes(s) == IF s = <<>> THEN <<>> ELSE Utf8(Head(s)) \o Bytes(Tail(s))

RECURSIVE SeqsUpTo(_, _)
SeqsUpTo(S, n) ==
    IF n = 0 THEN {<<>>}
    ELSE LET shorter == SeqsUpTo(S, n - 1)
         IN  shorter \cup {Append(s, x) : s \in shorter, x \in S}

ExampleZone ==
    <<"p","r","o","j","e","c","t","s","/","1","2","3","4","5","6","/",
      "z","o","n","e","s","/","u","s","-","c","e","n","t","r","a","l","1","-","a">>

\* Decoded zone strings, as rune sequences.
Zones == SeqsUpTo(Runes, MaxZoneLen) \cup {ExampleZone}

IsPathSeparator(c) == c = "/"

RECURSIVE StripTrailing(_)
StripTrailing(p) ==
    IF Len(p) > 0 /\ IsPathSeparator(p[Len(p)])
    THEN StripTrailing(SubSeq(p, 1, Len(p) - 1))
    ELSE p

RECURSIVE LastSeparator(_, _)
LastSeparator(p, i) ==
    IF i >= 1 /\ ~IsPathSeparator(p[i]) THEN LastSeparator(p, i - 1) ELSE i

\* filepath.Base on a Unix build.
Base(path) ==
    IF path = <<>> THEN <<".">>
    ELSE LET s == StripTrailing(path)
             i == LastSeparator(s, Len(s))
             t == IF i >= 1 THEN SubSeq(s, i + 1, Len(s)) ELSE s
         IN  IF t = <<>> THEN <<"/">> ELSE t

ZoneResps == [terr : BOOLEAN, status : Statuses, decodes : BOOLEAN, payload : Zones]
NoZoneResp == [terr |-> FALSE, status |-> 0, decodes |-> FALSE, payload |-> <<>>]

\* Mutant: the payload is returned whole, filepath.Base is not applied.
resolveGcpZoneWholePayload(resp) ==
    IF resp.terr THEN Ret(<<>>, Err("GetZone", 0))
    ELSE IF resp.status # StatusOK THEN Ret(<<>>, Err("RegionStatus", resp.status))
    ELSE IF ~resp.decodes THEN Ret(<<>>, Err("DecodeGoogle", 0))
    ELSE LET path == Bytes(resp.payload)
         IN  IF path = <<>> \/ Len(path) = 1
             THEN Ret(<<>>, Err("EmptyGoogle", 0))
             ELSE Ret(path, NoErr)

resolveGcpZone(resp) ==
    IF resp.terr THEN Ret(<<>>, Err("GetZone", 0))
    ELSE IF resp.status # StatusOK THEN Ret(<<>>, Err("RegionStatus", resp.status))
    ELSE IF ~resp.decodes THEN Ret(<<>>, Err("DecodeGoogle", 0))
    ELSE LET path == Base(Bytes(resp.payload))
         IN  IF path = <<>> \/ Len(path) = 1
             THEN Ret(<<>>, Err("EmptyGoogle", 0))
             ELSE Ret(path, NoErr)

NoRegionRes == Ret(<<>>, NoErr)

GpsAt(p) ==
    /\ pc = p
    /\ probes = <<>>
    /\ awsResp = NoAwsResp
    /\ tokenResp = NoTokenResp
    /\ msg = NoErr
    /\ locator = "nil"
    /\ genErr = NoErr
    /\ regionResp = NoZoneResp
    /\ regionRes = NoRegionRes

\* Mutant: a failed AWS probe is issued a second time.
GenerateLocatorAwsRetries ==
    /\ pc = "start"
    /\ \E resp \in AwsResps :
         LET r == resolveAwsRegion(resp)
         IN  /\ awsResp' = resp
             /\ IF r.err # NoErr
                THEN /\ probes' = probes \o <<"aws", "aws">>
                     /\ msg' = r.err
                     /\ pc' = "gcp"
                     /\ UNCHANGED <<locator, genErr>>
                ELSE /\ probes' = Append(probes, "aws")
                     /\ locator' = "aws"
                     /\ genErr' = NoErr
                     /\ pc' = "done"
                     /\ UNCHANGED msg
    /\ UNCHANGED <<tokenResp, regionResp, regionRes, sdlVars>>

\* GenerateLocator up to the return of resolveAwsRegion (gps.go:114-126).
GenerateLocatorAws ==
    /\ pc = "start"
    /\ \E resp \in AwsResps :
         LET r == resolveAwsRegion(resp)
         IN  /\ probes' = Append(probes, "aws")
             /\ awsResp' = resp
             /\ IF r.err # NoErr
                THEN /\ msg' = r.err
                     /\ pc' = "gcp"
                     /\ UNCHANGED <<locator, genErr>>
                ELSE /\ locator' = "aws"
                     /\ genErr' = NoErr
                     /\ pc' = "done"
                     /\ UNCHANGED msg
    /\ UNCHANGED <<tokenResp, regionResp, regionRes, sdlVars>>

\* GenerateLocator from the call of retrieveGCPInstanceToken on (gps.go:119-124).
GenerateLocatorGcp ==
    /\ pc = "gcp"
    /\ \E resp \in TokenResps :
         LET r == retrieveGCPInstanceToken(resp)
         IN  /\ probes' = Append(probes, "gcp")
             /\ tokenResp' = resp
             /\ IF r.err # NoErr
                THEN /\ locator' = "nil"
                     /\ genErr' = Wrap(r.err, msg)
                ELSE /\ locator' = "gcp"
                     /\ genErr' = NoErr
             /\ pc' = "done"
    /\ UNCHANGED <<awsResp, msg, regionResp, regionRes, sdlVars>>

\* (*GcpLocation).Region on the locator GenerateLocator returned.
GcpRegion ==
    /\ pc = "done"
    /\ locator = "gcp"
    /\ \E resp \in ZoneResps :
         /\ regionResp' = resp
         /\ regionRes' = resolveGcpZone(resp)
    /\ pc' = "region"
    /\ UNCHANGED <<probes, awsResp, tokenResp, msg, locator, genErr, sdlVars>>

(***************************************************************************)
(* package sdl                                                             *)
(***************************************************************************)
\* info.SdlVersion and info.LookUpAccession: the expected protocol version and
\* the membership test of the requested accessions.
SdlVersion == "2"
Requested == {"SRR000001", "SRR000002"}
LookUpAccession(id) == id \in Requested

\* ---- Location ----------------------------------------------------------
Locations ==
    [Link : {"", "l1", "l2"}, Service : {"", "s3"}, Region : {"", "us-east-1"},
     ExpirationDate : {0, 1}, Bucket : {"", "bkt"}, Key : {"", "key"}]
NoLoc ==
    [Link |-> "", Service |-> "", Region |-> "", ExpirationDate |-> 0,
     Bucket |-> "", Key |-> ""]

\* Mutant: the service is checked before the link.
LocationValidateServiceFirst(l) ==
    IF l.Service = "" THEN Err("NoService", 0)
    ELSE IF l.Link = "" THEN Err("NoLink", 0)
    ELSE IF l.Region = "" THEN Err("NoRegion", 0)
    ELSE NoErr

LocationValidate(l) ==
    IF l.Link = "" THEN Err("NoLink", 0)
    ELSE IF l.Service = "" THEN Err("NoService", 0)
    ELSE IF l.Region = "" THEN Err("NoRegion", 0)
    ELSE NoErr

\* ---- File --------------------------------------------------------------
\* Locations that occur inside the files of a run.
FileLocations ==
    [Link : {"", "l1"}, Service : {"", "s3"}, Region : {"", "us-east-1"},
     ExpirationDate : {0}, Bucket : {""}, Key : {""}]
Files ==
    [Name : {"", "a.bam"}, Size : {0, 7}, Type : {"", "bam"}, ModifiedDate : {0, 1},
     Md5Hash : {"d41d"}, Locations : SeqsUpTo(FileLocations, MaxLocs)]
NoFile ==
    [Name |-> "", Size |-> 0, Type |-> "", ModifiedDate |-> 0, Md5Hash |-> "",
     Locations |-> <<>>]

\* A run of File.Validate: the error it returns and the number of locations
\* it has called Validate on.
FileRet(err, n) == [err |-> err, locs |-> n]

\* Mutant: the check for more than one location is missing.
FileValidateRunNoCountCheck(f) ==
    IF f.Name = "" THEN FileRet(Err("FileNoName", 0), 0)
    ELSE IF f.Type = "" THEN FileRet(Err("FileNoType", 0), 0)
    ELSE IF Len(f.Locations) = 0 THEN FileRet(NoErr, 0)
    ELSE FileRet(LocationValidate(f.Locations[1]), 1)

FileValidateRun(f) ==
    IF f.Name = "" THEN FileRet(Err("FileNoName", 0), 0)
    ELSE IF f.Type = "" THEN FileRet(Err("FileNoType", 0), 0)
    ELSE IF Len(f.Locations) > 1 THEN FileRet(Err("MultipleLocations", 0), 0)
    ELSE IF Len(f.Locations) = 0 THEN FileRet(NoErr, 0)
    ELSE FileRet(LocationValidate(f.Locations[1]), 1)

FileValidate(f) == FileValidateRun(f).err

\* fuseralib.File as File.Transfigure fills it.
DomFile(f, link, service, region) ==
    [Name |-> f.Name, Size |-> f.Size, Type |-> f.Type,
     ModifiedDate |-> f.ModifiedDate, Md5Hash |-> f.Md5Hash,
     Link |-> link, Service |-> service, Region |-> region]
NoDomFile == DomFile(NoFile, "", "", "")

\* Mutant: the location is not merged into the file.
FileTransfigureNoLocation(f) == DomFile(f, "", "", "")

FileTransfigure(f) ==
    IF Len(f.Locations) > 0
    THEN LET l == f.Locations[1]
         IN  DomFile(f, l.Link, l.Service, l.Region)
    ELSE DomFile(f, "", "", "")

\* ---- Accession ---------------------------------------------------------
\* Files that occur inside the accessions of a run: valid with a location,
\* valid without, a second a.bam with another link, nameless, typeless, with
\* a location that lacks its link, and with two locations.
PoolLoc(link) ==
    [Link |-> link, Service |-> "s3", Region |-> "us-east-1", ExpirationDate |-> 0,
     Bucket |-> "", Key |-> ""]
PoolFile(name, type, locs) ==
    [Name |-> name, Size |-> 7, Type |-> type, ModifiedDate |-> 0, Md5Hash |-> "d41d",
     Locations |-> locs]
FilePool ==
    {PoolFile("a.bam", "bam", <<PoolLoc("l1")>>),
     PoolFile("b.bam", "bam", <<>>),
     PoolFile("a.bam", "bam", <<PoolLoc("l2")>>),
     PoolFile("", "bam", <<>>),
     PoolFile("c.bam", "", <<>>),
     PoolFile("d.bam", "bam", <<PoolLoc("")>>),
     PoolFile("e.bam", "bam", <<PoolLoc("l1"), PoolLoc("l2")>>)}

AccessionIDs == Requested \cup {"SRR999999"}
Accessions ==
    [ID : AccessionIDs, Status : {200, 404}, Message : {"msg"},
     Files : SeqsUpTo(FilePool, MaxFiles)]
\* Accessions validated in a batch run.
BatchFilePool ==
    {PoolFile("a.bam", "bam", <<PoolLoc("l1")>>),
     PoolFile("", "bam", <<>>),
     PoolFile("e.bam", "bam", <<PoolLoc("l1"), PoolLoc("l2")>>)}
BatchAccessions ==
    [ID : AccessionIDs, Status : {200, 404}, Message : {"msg"},
     Files : SeqsUpTo(BatchFilePool, MaxFiles)]
NoAcc == [ID |-> "", Status |-> 0, Message |-> "", Files |-> <<>>]

\* The loop over a.Files (payload.go:62-67) from index i on: the error it
\* returns and the number of files it has called Validate on.
RECURSIVE ValidateFiles(_, _)
ValidateFiles(ff, i) ==
    IF i > Len(ff) THEN [err |-> NoErr, inspected |-> Len(ff)]
    ELSE LET e == FileValidate(ff[i])
         IN  IF e # NoErr THEN [err |-> e, inspected |-> i]
             ELSE ValidateFiles(ff, i + 1)

AccRet(err, dup, n) == [err |-> err, isDup |-> dup, inspected |-> n]

\* Mutant: the id is recorded only after every file has validated.
AccessionValidateMarksLate(a, dup) ==
    IF ~LookUpAccession(a.ID) THEN AccRet(Err("Unrequested", 0), dup, 0)
    ELSE IF a.Status # 200 THEN AccRet(Err("Status", a.Status), dup, 0)
    ELSE IF Len(a.Files) = 0 THEN AccRet(Err("NoFiles", 0), dup, 0)
    ELSE IF a.ID \in dup THEN AccRet(Err("Duplicate", 0), dup, 0)
    ELSE LET r == ValidateFiles(a.Files, 1)
         IN  AccRet(r.err, IF r.err = NoErr THEN dup \cup {a.ID} ELSE dup, r.inspected)

\* Mutant: the status is checked before the membership in the requested set.
AccessionValidateStatusFirst(a, dup) ==
    IF a.Status # 200 THEN AccRet(Err("Status", a.Status), dup, 0)
    ELSE IF ~LookUpAccession(a.ID) THEN AccRet(Err("Unrequested", 0), dup, 0)
    ELSE IF Len(a.Files) = 0 THEN AccRet(Err("NoFiles", 0), dup, 0)
    ELSE IF a.ID \in dup THEN AccRet(Err("Duplicate", 0), dup, 0)
    ELSE LET r == ValidateFiles(a.Files, 1)
         IN  AccRet(r.err, dup \cup {a.ID}, r.inspected)

\* Mutant: the duplicate check is missing.
AccessionValidateNoDupCheck(a, dup) ==
    IF ~LookUpAccession(a.ID) THEN AccRet(Err("Unrequested", 0), dup, 0)
    ELSE IF a.Status # 200 THEN AccRet(Err("Status", a.Status), dup, 0)
    ELSE IF Len(a.Files) = 0 THEN AccRet(Err("NoFiles", 0), dup, 0)
    ELSE LET r == ValidateFiles(a.Files, 1)
         IN  AccRet(r.err, dup \cup {a.ID}, r.inspected)

\* (*Accession).Validate with the map isDup holding the keys dup: the error
\* returned, the keys of the map afterwards, the files validated.
AccessionValidate(a, dup) ==
    IF ~LookUpAccession(a.ID) THEN AccRet(Err("Unrequested", 0), dup, 0)
    ELSE IF a.Status # 200 THEN AccRet(Err("Status", a.Status), dup, 0)
    ELSE IF Len(a.Files) = 0 THEN AccRet(Err("NoFiles", 0), dup, 0)
    ELSE IF a.ID \in dup THEN AccRet(Err("Duplicate", 0), dup, 0)
    ELSE LET r == ValidateFiles(a.Files, 1)
         IN  AccRet(r.err, dup \cup {a.ID}, r.inspected)

\* mapFiles: the map after the loop of payload.go:82-84 has run over ff.
RECURSIVE mapFiles(_)
mapFiles(ff) ==
    IF ff = <<>> THEN <<>>
    ELSE LET mf == mapFiles(SubSeq(ff, 1, Len(ff) - 1))
             f  == ff[Len(ff)]
         IN  [k \in DOMAIN mf \cup {f.Name} |->
                 IF k = f.Name THEN FileTransfigure(f) ELSE mf[k]]

AccessionTransfigure(a) == [ID |-> a.ID, Files |-> mapFiles(a.Files)]
NoDomAcc == [ID |-> "", Files |-> <<>>]

\* ---- VersionWrap -------------------------------------------------------
MaxResults == 2
ResultPool ==
    {[ID |-> "SRR000001", Status |-> 200, Message |-> "msg",
      Files |-> <<PoolFile("b.bam", "bam", <<>>)>>],
     [ID |-> "SRR999999", Status |-> 404, Message |-> "msg", Files |-> <<>>]}
Wraps == [Version : {"", "1", SdlVersion}, Result : SeqsUpTo(ResultPool, MaxResults)]
NoWrap == [Version |-> "", Result |-> <<>>]

\* Mutant: the result is looked at before the version.
VersionWrapValidateResultFirst(v) ==
    IF Len(v.Result) = 0 THEN Err("EmptyResponse", 0)
    ELSE IF SdlVersion # v.Version THEN Err("VersionMismatch", 0)
    ELSE NoErr

VersionWrapValidate(v) ==
    IF SdlVersion # v.Version THEN Err("VersionMismatch", 0)
    ELSE IF Len(v.Result) = 0 THEN Err("EmptyResponse", 0)
    ELSE NoErr

(***************************************************************************)
(* Payload runs: one record, drawn at the start, and the operations of its *)
(* type applied to it.                                                     *)
(***************************************************************************)
SdlAt(r, l, f, a, w) ==
    /\ recv = r
    /\ done = {}
    /\ lastOp = "none"
    /\ loc = l
    /\ locErr = NoErr
    /\ file = f
    /\ fileErr = NoErr
    /\ locsValidated = 0
    /\ newfile = NoDomFile
    /\ wrap = w
    /\ wrapErr = NoErr
    /\ isDup = {}
    /\ acc = a
    /\ accErr = NoErr
    /\ inspected = 0
    /\ domAcc = NoDomAcc
    /\ dupBefore = FALSE
    /\ repeat = "no"
    /\ prevPass = FALSE

LocationValidateCall ==
    /\ recv = "Location"
    /\ "Validate" \notin done
    /\ locErr' = LocationValidate(loc)
    /\ done' = done \cup {"Validate"}
    /\ UNCHANGED <<gpsVars, recv, lastOp, loc, file, fileErr, locsValidated, newfile,
                   accVars>>

FileValidateCall ==
    /\ recv = "File"
    /\ "Validate" \notin done
    /\ fileErr' = FileValidateRun(file).err
    /\ locsValidated' = FileValidateRun(file).locs
    /\ done' = done \cup {"Validate"}
    /\ UNCHANGED <<gpsVars, recv, lastOp, loc, locErr, file, newfile, accVars>>

FileTransfigureCall ==
    /\ recv = "File"
    /\ "Transfigure" \notin done
    /\ newfile' = FileTransfigure(file)
    /\ done' = done \cup {"Transfigure"}
    /\ UNCHANGED <<gpsVars, recv, lastOp, loc, locErr, file, fileErr, locsValidated,
                   accVars>>

AccessionTransfigureCall ==
    /\ recv = "Accession"
    /\ "Transfigure" \notin done
    /\ domAcc' = AccessionTransfigure(acc)
    /\ done' = done \cup {"Transfigure"}
    /\ UNCHANGED <<gpsVars, recv, lastOp, fileVars, wrap, wrapErr, isDup, acc, accErr,
                   inspected, dupBefore, repeat, prevPass>>

VersionWrapValidateCall ==
    /\ recv = "VersionWrap"
    /\ "Validate" \notin done
    /\ wrapErr' = VersionWrapValidate(wrap)
    /\ done' = done \cup {"Validate"}
    /\ UNCHANGED <<gpsVars, recv, lastOp, fileVars, wrap, isDup, acc, accErr,
                   inspected, domAcc, dupBefore, repeat, prevPass>>

(***************************************************************************)
(* Batch runs: Accession.Validate called again and again on one map, which *)
(* its owner may replace by an empty one.                                  *)
(***************************************************************************)
\* The record is requested, has status 200 and has files.
PassesChecks1to3(a) == a.ID \in Requested /\ a.Status = 200 /\ Len(a.Files) > 0

AccessionValidateCall ==
    /\ recv = "Batch"
    /\ \E a \in BatchAccessions :
         LET r == AccessionValidate(a, isDup)
         IN  /\ acc' = a
             /\ accErr' = r.err
             /\ isDup' = r.isDup
             /\ inspected' = r.inspected
             /\ dupBefore' = (a.ID \in isDup)
             /\ repeat' = IF lastOp # "none" /\ a.ID = acc.ID
                          THEN (IF lastOp = "reset" THEN "reset" ELSE "same")
                          ELSE "no"
             /\ prevPass' = (lastOp # "none" /\ PassesChecks1to3(acc))
    /\ lastOp' = "validate"
    /\ UNCHANGED <<gpsVars, recv, done, fileVars, wrap, wrapErr, domAcc>>

\* The owner of the map starts a new batch with an empty map.
NewBatch ==
    /\ recv = "Batch"
    /\ lastOp = "validate"
    /\ isDup' = {}
    /\ lastOp' = "reset"
    /\ UNCHANGED <<gpsVars, recv, done, fileVars, wrap, wrapErr, acc, accErr,
                   inspected, domAcc, dupBefore, repeat, prevPass>>

(***************************************************************************)
(* Specifications                                                          *)
(***************************************************************************)
InitGps == GpsAt("start") /\ SdlAt("none", NoLoc, NoFile, NoAcc, NoWrap)
NextGps == GenerateLocatorAws \/ GenerateLocatorGcp \/ GcpRegion
SpecGps == InitGps /\ [][NextGps]_vars

InitPayload ==
    /\ GpsAt("idle")
    /\ \/ \E l \in Locations : SdlAt("Location", l, NoFile, NoAcc, NoWrap)
       \/ \E f \in Files : SdlAt("File", NoLoc, f, NoAcc, NoWrap)
       \/ \E a \in Accessions : SdlAt("Accession", NoLoc, NoFile, a, NoWrap)
       \/ \E w \in Wraps : SdlAt("VersionWrap", NoLoc, NoFile, NoAcc, w)
NextPayload ==
    \/ LocationValidateCall
    \/ FileValidateCall
    \/ FileTransfigureCall
    \/ AccessionTransfigureCall
    \/ VersionWrapValidateCall
SpecPayload == InitPayload /\ [][NextPayload]_vars

InitBatch == GpsAt("idle") /\ SdlAt("Batch", NoLoc, NoFile, NoAcc, NoWrap)
NextBatch == AccessionValidateCall \/ NewBatch
SpecBatch == InitBatch /\ [][NextBatch]_vars

Init == InitGps \/ InitPayload \/ InitBatch
Next == NextGps \/ NextPayload \/ NextBatch
Spec == Init /\ [][Next]_vars

(***************************************************************************)
(* Properties of package gps, checked under SpecGps                        *)
(***************************************************************************)
\* What the specification calls a successful probe, read off the response.
AwsProbeSucceeds(r) == ~r.terr /\ r.status = 200 /\ r.decodes /\ r.region # ""
TokenProbeSucceeds(r) == ~r.terr /\ r.status = 200 /\ r.readok
Resolved == pc \in {"done", "region"}

AwsFailureKinds == {"GetAws", "RegionStatus", "DecodeAmazon", "EmptyAmazon"}
TokenFailureKinds == {"GetToken", "TokenStatus", "DecodeGoogle"}

\* C1: GenerateLocator returns the AWS variant iff the AWS probe succeeds, the
\* GCP variant iff the AWS probe fails and the GCP probe succeeds, and no
\* locator with an error iff both fail; that error carries the AWS cause and
\* the GCP cause.  A non-200 status, an undecodable body or an empty AWS
\* region is a failure of that probe only.
C1_Resolution ==
    Resolved =>
        LET awsOK == AwsProbeSucceeds(awsResp)
            gcpOK == TokenProbeSucceeds(tokenResp)
        IN  /\ (locator = "aws") <=> awsOK
            /\ (locator = "gcp") <=> (~awsOK /\ gcpOK)
            /\ (locator = "nil") <=> (~awsOK /\ ~gcpOK)
            /\ (genErr # NoErr) <=> (~awsOK /\ ~gcpOK)
            /\ (~awsOK /\ ~gcpOK) =>
                  /\ DOMAIN genErr = {"msg", "cause"}
                  /\ genErr.msg = resolveAwsRegion(awsResp).err
                  /\ genErr.msg.kind \in AwsFailureKinds
                  /\ genErr.cause = retrieveGCPInstanceToken(tokenResp).err
                  /\ genErr.cause.kind \in TokenFailureKinds

\* An empty AWS region followed by a 404 of the token endpoint: no locator,
\* and both causes in the error.
C1_Witness ==
    /\ pc = "done"
    /\ locator = "nil"
    /\ awsResp.status = 200 /\ awsResp.decodes /\ ~awsResp.terr /\ awsResp.region = ""
    /\ genErr = Wrap(Err("TokenStatus", 404), Err("EmptyAmazon", 0))

\* C2: in a run of GenerateLocator the AWS probe is issued first, the GCP
\* probe only after the AWS probe has failed and never after it succeeded,
\* and each probe at most once.
C2_ProbeOrder ==
    /\ probes \in {<<>>, <<"aws">>, <<"aws", "gcp">>}
    /\ (pc = "start") <=> (probes = <<>>)
    /\ (pc = "gcp") => (probes = <<"aws">> /\ ~AwsProbeSucceeds(awsResp))
    /\ (probes = <<"aws", "gcp">>) => (Resolved /\ ~AwsProbeSucceeds(awsResp))
    /\ (Resolved /\ AwsProbeSucceeds(awsResp)) => probes = <<"aws">>
    /\ (Resolved /\ ~AwsProbeSucceeds(awsResp)) => probes = <<"aws", "gcp">>

C2_Witness ==
    /\ pc = "done"
    /\ probes = <<"aws", "gcp">>
    /\ awsResp.status = 500
    /\ locator = "gcp"

\* The last path segment of a zone string, on its runes: what is left of the
\* string without its trailing slashes after its last slash.
Max(S) == CHOOSE x \in S : \A y \in S : y <= x
LastSegment(z) ==
    LET n == Max({0} \cup {i \in 1..Len(z) : z[i] # "/"})
        k == Max({0} \cup {i \in 1..n : z[i] = "/"})
    IN  SubSeq(z, k + 1, n)
ZoneDecoded == pc = "region" /\ ~regionResp.terr /\ regionResp.status = 200
                  /\ regionResp.decodes

\* C9 as stated: region() of the GCP provider returns the last path segment
\* of the decoded zone string, and fails for a zone string that is empty or
\* whose last segment is a single character.
C9_AsStated ==
    ZoneDecoded =>
        LET seg == LastSegment(regionResp.payload)
        IN  /\ (regionResp.payload = <<>> \/ Len(seg) = 1) => regionRes.err # NoErr
            /\ regionRes.err = NoErr => regionRes.val = Bytes(seg)

\* C9 as amended: region() fails iff the last path segment of the decoded zone
\* string is at most one byte long (an empty string, slashes only, or a
\* single one-byte character), and returns that segment otherwise, so a
\* segment that is one character of several bytes is returned.
C9_Region ==
    ZoneDecoded =>
        LET seg == Bytes(LastSegment(regionResp.payload))
        IN  IF Len(seg) <= 1
            THEN regionRes = Ret(<<>>, Err("EmptyGoogle", 0))
            ELSE regionRes = Ret(seg, NoErr)

C9_Witness ==
    /\ ZoneDecoded
    /\ regionResp.payload = ExampleZone
    /\ regionRes = Ret(<<"u","s","-","c","e","n","t","r","a","l","1","-","a">>, NoErr)

(***************************************************************************)
(* Properties of the payload records, checked under SpecPayload            *)
(***************************************************************************)
WrapValidated == recv = "VersionWrap" /\ "Validate" \in done

\* C3 as stated: VersionWrap.Validate fails with the version-mismatch error
\* iff the version differs from the expected one, and with the empty-result
\* error iff the results are empty.
C3_AsStated ==
    WrapValidated =>
        /\ (wrapErr = Err("VersionMismatch", 0)) <=> (wrap.Version # SdlVersion)
        /\ (wrapErr = Err("EmptyResponse", 0)) <=> (Len(wrap.Result) = 0)

\* C3 as amended: VersionWrap.Validate fails with the version-mismatch error
\* iff the version differs from the expected one, and with the empty-result
\* error iff the version is the expected one and the results are empty; it
\* succeeds otherwise.
C3_Envelope ==
    WrapValidated =>
        /\ (wrapErr = Err("VersionMismatch", 0)) <=> (wrap.Version # SdlVersion)
        /\ (wrapErr = Err("EmptyResponse", 0)) <=>
               (wrap.Version = SdlVersion /\ Len(wrap.Result) = 0)
        /\ (wrapErr = NoErr) <=> (wrap.Version = SdlVersion /\ Len(wrap.Result) > 0)

C3_Witness ==
    /\ WrapValidated
    /\ wrap.Version = SdlVersion
    /\ wrap.Result = <<>>
    /\ wrapErr = Err("EmptyResponse", 0)

FileValidated == recv = "File" /\ "Validate" \in done

\* C6 as stated: File.Validate fails with the multiple-locations error
\* whenever the record has 2 or more locations, a record with 0 locations is
\* valid and no location is validated, and with exactly one location the
\* result is that location's validation result.
C6_AsStated ==
    FileValidated =>
        /\ Len(file.Locations) >= 2 => fileErr = Err("MultipleLocations", 0)
        /\ Len(file.Locations) = 0 => (fileErr = NoErr /\ locsValidated = 0)
        /\ Len(file.Locations) = 1 => fileErr = LocationValidate(file.Locations[1])

\* C6 as amended: for a file record whose name and type are not empty,
\* File.Validate fails with the multiple-locations error whenever the record
\* has 2 or more locations, a record with 0 locations is valid and no
\* location is validated, and with exactly one location the result is that
\* location's validation result.
C6_File ==
    (FileValidated /\ file.Name # "" /\ file.Type # "") =>
        /\ Len(file.Locations) >= 2 =>
              (fileErr = Err("MultipleLocations", 0) /\ locsValidated = 0)
        /\ Len(file.Locations) = 0 => (fileErr = NoErr /\ locsValidated = 0)
        /\ Len(file.Locations) = 1 =>
              LET l == file.Locations[1]
              IN  /\ locsValidated = 1
                  /\ fileErr = IF l.Link = "" THEN Err("NoLink", 0)
                               ELSE IF l.Service = "" THEN Err("NoService", 0)
                               ELSE IF l.Region = "" THEN Err("NoRegion", 0)
                               ELSE NoErr

C6_Witness ==
    /\ FileValidated
    /\ file.Name # "" /\ file.Type # ""
    /\ Len(file.Locations) = 2
    /\ LocationValidate(file.Locations[1]) = NoErr
    /\ fileErr = Err("MultipleLocations", 0)

FileTransfigured == recv = "File" /\ "Transfigure" \in done
AccessionTransfigured == recv = "Accession" /\ "Transfigure" \in done
Names(ff) == {ff[i].Name : i \in 1..Len(ff)}
\* The domain File the specification describes for a file record.
Flattened(f) ==
    [Name |-> f.Name, Size |-> f.Size, Type |-> f.Type,
     ModifiedDate |-> f.ModifiedDate, Md5Hash |-> f.Md5Hash,
     Link |-> IF Len(f.Locations) = 0 THEN "" ELSE f.Locations[1].Link,
     Service |-> IF Len(f.Locations) = 0 THEN "" ELSE f.Locations[1].Service,
     Region |-> IF Len(f.Locations) = 0 THEN "" ELSE f.Locations[1].Region]

\* C7: File.Transfigure copies name, size, type, modifiedDate and md5Hash and
\* takes link, service and region from the file's location, leaving them
\* empty when there is none; Accession.Transfigure keeps the id and maps the
\* name of every file to its transfigured File (the last file of a name when
\* a name occurs twice), so one validated file with one valid location gives
\* exactly one File with that location's link, service and region.
C7_Transfigure ==
    /\ FileTransfigured =>
          /\ newfile.Name = file.Name /\ newfile.Size = file.Size
          /\ newfile.Type = file.Type /\ newfile.ModifiedDate = file.ModifiedDate
          /\ newfile.Md5Hash = file.Md5Hash
          /\ Len(file.Locations) > 0 =>
                /\ newfile.Link = file.Locations[1].Link
                /\ newfile.Service = file.Locations[1].Service
                /\ newfile.Region = file.Locations[1].Region
          /\ Len(file.Locations) = 0 =>
                (newfile.Link = "" /\ newfile.Service = "" /\ newfile.Region = "")
    /\ AccessionTransfigured =>
          LET ff == acc.Files
          IN  /\ domAcc.ID = acc.ID
              /\ DOMAIN domAcc.Files = Names(ff)
              /\ \A i \in 1..Len(ff) :
                    (\A j \in (i + 1)..Len(ff) : ff[j].Name # ff[i].Name) =>
                        domAcc.Files[ff[i].Name] = Flattened(ff[i])
              /\ (Len(ff) = 1 /\ FileValidate(ff[1]) = NoErr
                     /\ Len(ff[1].Locations) = 1) =>
                    /\ Cardinality(DOMAIN domAcc.Files) = 1
                    /\ domAcc.Files[ff[1].Name].Link = ff[1].Locations[1].Link
                    /\ domAcc.Files[ff[1].Name].Service = ff[1].Locations[1].Service
                    /\ domAcc.Files[ff[1].Name].Region = ff[1].Locations[1].Region
                    /\ domAcc.Files[ff[1].Name].Link # ""

\* SRR000001 with the one file a.bam at l1.
C7_Witness ==
    /\ AccessionTransfigured
    /\ acc.ID = "SRR000001"
    /\ acc.Files = <<PoolFile("a.bam", "bam", <<PoolLoc("l1")>>)>>
    /\ domAcc.ID = "SRR000001"
    /\ DOMAIN domAcc.Files = {"a.bam"}
    /\ domAcc.Files["a.bam"].Link = "l1"
    /\ domAcc.Files["a.bam"].Service = "s3"
    /\ domAcc.Files["a.bam"].Region = "us-east-1"

LocationValidated == recv = "Location" /\ "Validate" \in done

\* C8: Location.Validate fails with the missing-link error iff link is empty,
\* with the missing-service error iff link is not empty and service is, with
\* the missing-region error iff link and service are not empty and region is,
\* and succeeds iff none is empty; expirationDate, bucket and key do not
\* affect the result.
C8_Location ==
    LocationValidated =>
        /\ (locErr = Err("NoLink", 0)) <=> (loc.Link = "")
        /\ (locErr = Err("NoService", 0)) <=> (loc.Link # "" /\ loc.Service = "")
        /\ (locErr = Err("NoRegion", 0)) <=>
               (loc.Link # "" /\ loc.Service # "" /\ loc.Region = "")
        /\ (locErr = NoErr) <=> (loc.Link # "" /\ loc.Service # "" /\ loc.Region # "")
        /\ \A l \in Locations :
               (l.Link = loc.Link /\ l.Service = loc.Service /\ l.Region = loc.Region)
                   => LocationValidate(l) = locErr

C8_Witness ==
    /\ LocationValidated
    /\ loc.Link # "" /\ loc.Service = "" /\ loc.Region = ""
    /\ loc.Bucket # "" /\ loc.Key # "" /\ loc.ExpirationDate = 1
    /\ locErr = Err("NoService", 0)

(***************************************************************************)
(* Properties of Accession.Validate on a shared map, checked under         *)
(* SpecBatch                                                               *)
(***************************************************************************)
JustValidated == recv = "Batch" /\ lastOp = "validate"
AllFilesValid(a) == \A i \in 1..Len(a.Files) : FileValidate(a.Files[i]) = NoErr

\* C4 as stated: the second of two Accession.Validate calls for one id on one
\* map fails with the duplicate-accession error, and succeeds if the map is
\* emptied between the two calls.
C4_AsStated ==
    JustValidated =>
        /\ repeat = "same" => accErr = Err("Duplicate", 0)
        /\ repeat = "reset" => accErr = NoErr

\* C4 as amended: when both calls are given a record that is requested, has
\* status 200 and has files, the second of two Accession.Validate calls for
\* one id on one map fails with the duplicate-accession error; if the map is
\* emptied between the two calls, the second call does not fail with that
\* error and succeeds iff all files of its record are valid.
C4_Duplicate ==
    (JustValidated /\ PassesChecks1to3(acc)) =>
        /\ (repeat = "same" /\ prevPass) =>
              (accErr = Err("Duplicate", 0) /\ inspected = 0)
        /\ repeat = "reset" =>
              /\ accErr # Err("Duplicate", 0)
              /\ (accErr = NoErr) <=> AllFilesValid(acc)

C4_Witness ==
    /\ JustValidated
    /\ repeat = "same"
    /\ prevPass
    /\ PassesChecks1to3(acc)
    /\ AllFilesValid(acc)
    /\ accErr = Err("Duplicate", 0)

Min(S) == CHOOSE x \in S : \A y \in S : x <= y

\* C5: Accession.Validate checks, in this order, that the id is requested,
\* the status is 200, there are files, the id is not in the map yet and each
\* file in sequence order is valid, and returns the error of the first check
\* violated; an id that is not requested gives the unrequested-accession
\* error whatever the rest is, before any file is inspected.
C5_CheckOrder ==
    JustValidated =>
        IF acc.ID \notin Requested
        THEN accErr = Err("Unrequested", 0) /\ inspected = 0
        ELSE IF acc.Status # 200
        THEN accErr = Err("Status", acc.Status) /\ inspected = 0
        ELSE IF Len(acc.Files) = 0
        THEN accErr = Err("NoFiles", 0) /\ inspected = 0
        ELSE IF dupBefore
        THEN accErr = Err("Duplicate", 0) /\ inspected = 0
        ELSE LET bad == {i \in 1..Len(acc.Files) :
                            FileValidateRun(acc.Files[i]).err # NoErr}
             IN  IF bad = {}
                 THEN accErr = NoErr /\ inspected = Len(acc.Files)
                 ELSE /\ accErr = FileValidateRun(acc.Files[Min(bad)]).err
                      /\ inspected = Min(bad)

\* An accession nobody asked for, with a bad status and an invalid file.
C5_Witness ==
    /\ JustValidated
    /\ acc.ID = "SRR999999"
    /\ acc.Status = 404
    /\ Len(acc.Files) > 0
    /\ ~AllFilesValid(acc)
    /\ accErr = Err("Unrequested", 0)
    /\ inspected = 0

\* C10: a call of Accession.Validate adds its id to the map exactly when the
\* id is requested, the status is 200, there are files and the id is not in
\* the map, also when a file then fails to validate; otherwise it leaves the
\* map as it is.  No call removes a key, and the map holds requested ids only.
C10_SeenSet ==
    [][(recv = "Batch" /\ lastOp' = "validate") =>
          /\ IF PassesChecks1to3(acc') /\ acc'.ID \notin isDup
             THEN isDup' = isDup \cup {acc'.ID}
             ELSE isDup' = isDup
          /\ isDup \subseteq isDup'
          /\ isDup' \subseteq Requested]_vars

\* The id is in the map although the call failed on a file.
C10_Witness ==
    /\ JustValidated
    /\ ~dupBefore
    /\ accErr = Err("FileNoName", 0)
    /\ acc.ID \in isDup

====
